---- MODULE Spec2Model ----
(***************************************************************************)
(* Pinpoint export plugin: the buffered variant (src/index.ts) and the     *)
(* immediate variant (src/unnamed/part_000) as one state machine.          *)
(*                                                                         *)
(* JavaScript values are tagged records [t, v]: t is the typeof-like tag   *)
(* and v the text of the value.  Strings that the code splits, trims or    *)
(* parses (event type names, eventsToIgnore, uploadSeconds, ...) are       *)
(* sequences of one-character strings.                                     *)
(***************************************************************************)
EXTENDS Integers, Sequences, FiniteSets, TLC

VARIABLES
    variant,        \* "buffered" (src/index.ts) or "immediate" (part_000)
    config,         \* meta.config
    pc,             \* "init", "running", "failed" (setupPlugin threw), "done"
    setupError,     \* message of the Error setupPlugin threw, "" when none
    pinpoint,       \* global.pinpoint: "none" or "client"
    bufCreated,     \* global.buffer exists
    ignoreMade,     \* global.eventsToIgnore exists
    eventsToIgnore, \* global.eventsToIgnore: the set of names
    bufEvents,      \* buffer: pending sequence
    bufSize,        \* buffer: running size estimate
    bufLimit,       \* buffer: options.limit
    bufTimeout,     \* buffer: options.timeoutSeconds
    bufDeadline,    \* buffer: deadline of the next scheduled flush
    now,            \* wall clock, seconds
    delivered,      \* number of events the host has delivered so far
    accepted,       \* events that passed the ignore filter, in order
    bufSince,       \* arrival time of each pending event
    dispatched,     \* every list of events sendToPinpoint was called with
    batchKeys,      \* per sendToPinpoint call, the batch key of each event
                    \* its reduce reached
    submitted,      \* every command handed to the outbound client
    uncaught,       \* failures that escaped sendToPinpoint
    inflight,       \* indexes of submitted commands not completed yet
    log,            \* per completed command, the lines its callback logged
    uuidCounter,    \* number of ids randomUUID() has produced
    lastOp          \* the handler that ran last and what it saw

vars == <<variant, config, pc, setupError, pinpoint, bufCreated, ignoreMade,
          eventsToIgnore, bufEvents, bufSize, bufLimit, bufTimeout,
          bufDeadline, now, delivered, accepted, bufSince, dispatched,
          batchKeys, submitted, uncaught, inflight, log, uuidCounter, lastOp>>

(***************************************************************************)
(* Bounds                                                                  *)
(***************************************************************************)
MaxEvents == 2     \* events the host delivers in one run
MaxTime == 2       \* seconds the clock runs
MaxBatch == 2      \* length of a list passed to sendToPinpoint directly

(***************************************************************************)
(* JavaScript values                                                       *)
(***************************************************************************)
Undef == [t |-> "undefined", v |-> ""]
Null == [t |-> "null", v |-> ""]
Str(s) == [t |-> "string", v |-> s]
Num(s) == [t |-> "number", v |-> s]
Bool(s) == [t |-> "boolean", v |-> s]
Obj(s) == [t |-> "object", v |-> s]

\* !!x
Truthy(x) ==
    CASE x.t = "string" -> x.v # ""
      [] x.t = "number" -> x.v \notin {"0", "NaN"}
      [] x.t = "boolean" -> x.v = "true"
      [] x.t = "object" -> TRUE
      [] OTHER -> FALSE

\* a || b
OrElse(a, b) == IF Truthy(a) THEN a ELSE b

\* a ?? b
Coalesce(a, b) == IF a.t \in {"undefined", "null"} THEN b ELSE a

\* x?.toString()
OptToString(x) ==
    CASE x.t \in {"undefined", "null"} -> Undef
      [] x.t = "object" -> Str("[object Object]")
      [] OTHER -> Str(x.v)

\* JSON.stringify(x)
JSONstringify(x) ==
    CASE x.t = "undefined" -> Undef
      [] x.t = "null" -> Str("null")
      [] x.t = "string" -> Str("\"" \o x.v \o "\"")
      [] OTHER -> Str(x.v)

\* the property name a value becomes when used as an object key
KeyOf(x) == IF x.t = "undefined" THEN "undefined"
            ELSE IF x.t = "null" THEN "null" ELSE x.v

\* { ...a, ...b }
Spread(a, b) ==
    [k \in DOMAIN a \cup DOMAIN b |-> IF k \in DOMAIN b THEN b[k] ELSE a[k]]

EmptyObject == [k \in {} |-> Undef]

(***************************************************************************)
(* Character strings: split, trim, parseInt                                *)
(***************************************************************************)
CUndef == [t |-> "undefined", s |-> <<>>]
CStr(chars) == [t |-> "string", s |-> chars]
CTruthy(x) == x.t = "string" /\ x.s # <<>>

Digits == {"0", "1", "2", "3", "4", "5", "6", "7", "8", "9"}
DigitVal(c) ==
    CASE c = "0" -> 0 [] c = "1" -> 1 [] c = "2" -> 2 [] c = "3" -> 3
      [] c = "4" -> 4 [] c = "5" -> 5 [] c = "6" -> 6 [] c = "7" -> 7
      [] c = "8" -> 8 [] c = "9" -> 9

RECURSIVE TrimStart(_)
TrimStart(s) == IF s # <<>> /\ Head(s) = " " THEN TrimStart(Tail(s)) ELSE s

RECURSIVE TrimEnd(_)
TrimEnd(s) ==
    IF s # <<>> /\ s[Len(s)] = " " THEN TrimEnd(SubSeq(s, 1, Len(s) - 1)) ELSE s

\* String.prototype.trim
Trim(s) == TrimEnd(TrimStart(s))

\* String.prototype.split(','): the pieces between the commas
RECURSIVE SplitFrom(_, _, _)
SplitFrom(s, i, piece) ==
    IF i > Len(s) THEN <<piece>>
    ELSE IF s[i] = "," THEN <<piece>> \o SplitFrom(s, i + 1, <<>>)
    ELSE SplitFrom(s, i + 1, Append(piece, s[i]))

Split(s) == SplitFrom(s, 1, <<>>)

\* parseInt(x): NaN when no digit follows the optional blanks and sign
RECURSIVE DigitsValue(_, _, _)
DigitsValue(s, i, acc) ==
    IF i <= Len(s) /\ s[i] \in Digits
    THEN DigitsValue(s, i + 1, acc * 10 + DigitVal(s[i]))
    ELSE acc

ParseInt(x) ==
    IF x.t # "string" THEN [nan |-> TRUE, n |-> 0]
    ELSE LET s == TrimStart(x.s)
             neg == s # <<>> /\ Head(s) = "-"
             body == IF s # <<>> /\ Head(s) \in {"-", "+"} THEN Tail(s) ELSE s
         IN  IF body = <<>> \/ Head(body) \notin Digits
             THEN [nan |-> TRUE, n |-> 0]
             ELSE [nan |-> FALSE,
                   n |-> IF neg THEN 0 - DigitsValue(body, 1, 0)
                         ELSE DigitsValue(body, 1, 0)]

Min(a, b) == IF a < b THEN a ELSE b
Max(a, b) == IF a > b THEN a ELSE b

\* mutant of ClampSetting: the upper limit is not applied
ClampSettingNoUpper(x, hi) ==
    LET p == ParseInt(x)
        v == IF p.nan \/ p.n = 0 THEN 1 ELSE p.n
    IN  Max(1, v)

\* Math.max(1, Math.min(parseInt(x) || 1, hi))
ClampSetting(x, hi) ==
    LET p == ParseInt(x)
        v == IF p.nan \/ p.n = 0 THEN 1 ELSE p.n
    IN  Max(1, Min(v, hi))

uploadMegabytes(cfg) == ClampSetting(cfg.uploadMegabytes, 100)
uploadSeconds(cfg) == ClampSetting(cfg.uploadSeconds, 60)

\* the immediate variant reads the same setting under the name uploadKilobytes
uploadKilobytes(cfg) == ClampSetting(cfg.uploadMegabytes, 100)

RECURSIVE Join(_)
Join(chars) == IF chars = <<>> THEN "" ELSE Head(chars) \o Join(Tail(chars))

\* config.eventsToIgnore ? config.eventsToIgnore.split(',').map(trim) : null
IgnoreSetOf(cfg) ==
    IF CTruthy(cfg.eventsToIgnore)
    THEN LET pieces == Split(cfg.eventsToIgnore.s)
         IN  {Join(Trim(pieces[i])) : i \in 1..Len(pieces)}
    ELSE {}

(***************************************************************************)
(* Events                                                                  *)
(***************************************************************************)
NoProps == [k \in {} |-> Undef]

\* A PluginEvent. bytes is the size the buffer accounts for the event and
\* no is its arrival number (0 before the host delivers it).
Event(type, uuid, props, hasProps, timestamp, bytes) ==
    [event |-> Str(type), uuid |-> uuid, distinct_id |-> Str("person"),
     timestamp |-> timestamp, site_url |-> Str("https://app"),
     hasProps |-> hasProps, props |-> props, bytes |-> bytes, no |-> 0]

\* event.properties?.[key]
Prop(e, key) ==
    IF e.hasProps /\ key \in DOMAIN e.props THEN e.props[key] ELSE Undef

\* Object.keys(event.properties ?? {})
PropKeys(e) == IF e.hasProps THEN DOMAIN e.props ELSE {}

\* the event as the object the code indexes with event[key]
AsObject(e) ==
    [k \in {"event", "uuid", "distinct_id", "timestamp", "site_url"}
            \cup (IF e.hasProps THEN {"properties"} ELSE {}) |->
        CASE k = "event" -> e.event
          [] k = "uuid" -> e.uuid
          [] k = "distinct_id" -> e.distinct_id
          [] k = "timestamp" -> e.timestamp
          [] k = "site_url" -> e.site_url
          [] OTHER -> Obj("{...}")]

\* (obj ?? {})[key]
Lookup(obj, key) == IF key \in DOMAIN obj THEN obj[key] ELSE Undef

EventPool ==
    { Event("pageview", Str("u1"),
            [k \in {"$device_id", "$screen_width", "flag"} |->
                CASE k = "$device_id" -> Str("d1")
                  [] k = "$screen_width" -> Num("1024")
                  [] OTHER -> Bool("true")],
            TRUE, Str("2021-01-01"), 1),
      Event("pageview", Str("u2"),
            [k \in {"$device_id", "$screen_height", "nested", "nothing", "uuid"} |->
                CASE k = "$device_id" -> Str("d1")
                  [] k = "$screen_height" -> Num("768")
                  [] k = "nested" -> Obj("{\"a\":[1]}")
                  [] k = "nothing" -> Null
                  [] OTHER -> Str("prop")],
            TRUE, Str("2021-01-06"), 512 * 1024),
      Event("click", Str("u1"),
            [k \in {"$device_id", "$os_version"} |->
                CASE k = "$device_id" -> Str("d1")
                  [] OTHER -> Num("11")],
            TRUE, Str("2021-01-02"), 1024 * 1024),
      Event("heartbeat", Undef, NoProps, FALSE, Undef, 1),
      Event(" debug", Str("u3"),
            [k \in {"name", "gone", "$device_id"} |->
                CASE k = "name" -> Str("x")
                  [] k = "$device_id" -> Str("")
                  [] OTHER -> Undef],
            TRUE, Str("2021-01-04"), 1),
      Event("debug", Undef,
            [k \in {"$device_id"} |-> Str("7")],
            TRUE, Str("2021-01-05"), 1024 * 1024) }

\* the events the host delivers to onEvent and onSnapshot
HostEvents == {e \in EventPool : e.event.v # "click"}

\* samples of Math.floor(Math.random() * 1000000).toString()
RandomKeys == {"7", "8"}

\* the i-th id randomUUID() produces
FreshUuid(i) == Str("uuid-" \o ToString(i))

(***************************************************************************)
(* Immediate variant: getEndpoint, getAttribute, getEvents, sendToPinpoint *)
(***************************************************************************)
\* [event.properties?.$x?.toString() || '']
AttrList(e, key) == <<OrElse(OptToString(Prop(e, key)), Str(""))>>

getEndpoint(e) ==
    IF Truthy(Prop(e, "$device_id"))
    THEN [Address |-> e.site_url,
          Attributes |->
              [screen_density |-> AttrList(e, "$screen_density"),
               screen_height |-> AttrList(e, "$screen_height"),
               screen_name |-> AttrList(e, "$screen_name"),
               screen_width |-> AttrList(e, "$screen_width"),
               viewport_height |-> AttrList(e, "$viewport_height"),
               viewport_width |-> AttrList(e, "$viewport_width")],
          ChannelType |-> Prop(e, "$lib"),
          Demographic |->
              [AppVersion |-> Prop(e, "$app_version"),
               Locale |-> Prop(e, "$locale"),
               Make |-> OrElse(Prop(e, "$device_manufacturer"), Prop(e, "$device_type")),
               Model |-> OrElse(Prop(e, "$device_model"), Prop(e, "$os")),
               Platform |-> OrElse(Prop(e, "$os_name"), Prop(e, "$browser")),
               PlatformVersion |-> OrElse(OptToString(Prop(e, "$os_version")),
                                          OptToString(Prop(e, "$browser_version"))),
               Timezone |-> Prop(e, "$geoip_time_zone")],
          EffectiveDate |-> e.timestamp,
          Location |->
              [City |-> Prop(e, "$geoip_city_name"),
               Country |-> Prop(e, "$geoip_country_name"),
               Latitude |-> Prop(e, "$geoip_latitude"),
               Longitude |-> Prop(e, "$geoip_longitude"),
               PostalCode |-> Prop(e, "$geoip_postal_code"),
               Region |-> Prop(e, "$geoip_subdivision_1_code")],
          Metrics |-> EmptyObject,
          RequestId |-> e.uuid,
          User |-> [UserId |-> Prop(e, "$user_id")]]
    ELSE EmptyObject

\* getAttribute(properties, key): properties is whatever object the caller
\* passes
getAttribute(properties, key) ==
    LET value == Lookup(properties, key)
    IN  IF value.t \in {"number", "boolean"} THEN Str(value.v)
        ELSE IF value.t # "string" THEN JSONstringify(value)
        ELSE value

\* the key getEvents files an event under: event.uuid ?? randomUUID()
EventKey(e, fresh) == KeyOf(Coalesce(e.uuid, fresh))

\* one step of the reduce in getEvents: the accumulator is replaced
pinpointEvent(e, clock) ==
    [AppPackageName |-> Str("string;"),
     AppTitle |-> Str("string;"),
     AppVersionCode |-> Str("string;"),
     Attributes |-> [key \in PropKeys(e) |-> getAttribute(AsObject(e), key)],
     ClientSdkVersion |-> Prop(e, "$lib_version"),
     EventType |-> e.event,
     Metrics |-> EmptyObject,
     SdkName |-> Prop(e, "$lib"),
     Timestamp |-> OrElse(e.timestamp, Str(ToString(clock * 1000)))]

RECURSIVE getEventsFrom(_, _, _, _, _)
getEventsFrom(events, i, pinpointEvents, fresh, clock) ==
    IF i > Len(events) THEN pinpointEvents
    ELSE getEventsFrom(events, i + 1,
             [k \in {EventKey(events[i], fresh[i])} |-> pinpointEvent(events[i], clock)],
             fresh, clock)

\* fresh[i] is the id randomUUID() returns if events[i] needs one
getEvents(events, fresh, clock) ==
    getEventsFrom(events, 1, EmptyObject, fresh, clock)

\* e.properties?.$device_id || Math.floor(Math.random() * 1000000).toString()
BatchKey(e, random) == KeyOf(OrElse(Prop(e, "$device_id"), Str(random)))

\* mutant of BatchStep: the events already filed under the key are not
\* merged back
BatchStepNoMerge(batchEvents, e, random, fresh, clock) ==
    Spread(batchEvents,
           [k \in {BatchKey(e, random)} |->
               [Endpoint |-> getEndpoint(e),
                Events |-> getEvents(<<e>>, <<fresh>>, clock)]])

\* mutant of BatchStep: the endpoint of the first event of a key is kept
BatchStepFirstEndpoint(batchEvents, e, random, fresh, clock) ==
    LET batchKey == BatchKey(e, random)
        own == getEvents(<<e>>, <<fresh>>, clock)
    IN  Spread(batchEvents,
               [k \in {batchKey} |->
                   IF batchKey \in DOMAIN batchEvents
                   THEN [Endpoint |-> batchEvents[batchKey].Endpoint,
                         Events |-> Spread(own, batchEvents[batchKey].Events)]
                   ELSE [Endpoint |-> getEndpoint(e), Events |-> own]])

\* one step of the reduce in sendToPinpoint (part_000 lines 114-126)
BatchStep(batchEvents, e, random, fresh, clock) ==
    LET batchKey == BatchKey(e, random)
        own == getEvents(<<e>>, <<fresh>>, clock)
        pinpointEvents ==
            IF batchKey \in DOMAIN batchEvents
            THEN Spread(own, batchEvents[batchKey].Events)
            ELSE own
    IN  Spread(batchEvents,
               [k \in {batchKey} |->
                   [Endpoint |-> getEndpoint(e), Events |-> pinpointEvents]])

RECURSIVE BatchItemFrom(_, _, _, _, _, _)
BatchItemFrom(events, i, batchEvents, rnd, fresh, clock) ==
    IF i > Len(events) THEN batchEvents
    ELSE BatchItemFrom(events, i + 1,
             BatchStep(batchEvents, events[i], rnd[i], fresh[i], clock),
             rnd, fresh, clock)

\* the command sendToPinpoint of the immediate variant builds
ImmediateCommand(cfg, events, rnd, fresh, clock) ==
    [ApplicationId |-> cfg.applicationId,
     BatchItem |-> BatchItemFrom(events, 1, EmptyObject, rnd, fresh, clock)]

(***************************************************************************)
(* Buffered variant: fillEndpoint, fillEvents, sendToPinpoint              *)
(***************************************************************************)
fillEndpoint(e) ==
    IF Truthy(Prop(e, "$device_id"))
    THEN [Address |-> e.site_url,
          Attributes |->
              [screen_density |-> Prop(e, "$screen_density"),
               screen_height |-> Prop(e, "$screen_height"),
               screen_name |-> Prop(e, "$screen_name"),
               screen_width |-> Prop(e, "$screen_width"),
               viewport_height |-> Prop(e, "$viewport_height"),
               viewport_width |-> Prop(e, "$viewport_width")],
          ChannelType |-> Prop(e, "$lib"),
          Demographic |->
              [AppVersion |-> Prop(e, "$app_version"),
               Locale |-> Prop(e, "$locale"),
               Make |-> OrElse(Prop(e, "$device_manufacturer"), Prop(e, "$device_type")),
               Model |-> OrElse(Prop(e, "$device_model"), Prop(e, "$os")),
               Platform |-> OrElse(Prop(e, "$os_name"), Prop(e, "$browser")),
               PlatformVersion |-> OrElse(Prop(e, "$os_version"),
                                          Prop(e, "$browser_version")),
               Timezone |-> Prop(e, "$geoip_time_zone")],
          EffectiveDate |-> e.timestamp,
          Location |->
              [City |-> Prop(e, "$geoip_city_name"),
               Country |-> Prop(e, "$geoip_country_name"),
               Latitude |-> Prop(e, "$geoip_latitude"),
               Longitude |-> Prop(e, "$geoip_longitude"),
               PostalCode |-> Prop(e, "$geoip_postal_code"),
               Region |-> Prop(e, "$geoip_subdivision_1_code")],
          Metrics |-> EmptyObject,
          RequestId |-> e.uuid,
          User |-> [UserId |-> Prop(e, "$user_id")]]
    ELSE EmptyObject

\* one step of the reduce in fillEvents: the accumulator is replaced
filledEvent(e) ==
    [AppPackageName |-> Str("string;"),
     AppTitle |-> Str("string;"),
     AppVersionCode |-> Str("string;"),
     Attributes |-> [key \in PropKeys(e) |-> JSONstringify(Prop(e, key))],
     ClientSdkVersion |-> Prop(e, "$lib_version"),
     EventType |-> e.event,
     Metrics |->
         [screen_density |-> Prop(e, "$screen_density"),
          screen_height |-> Prop(e, "$screen_height"),
          screen_name |-> Prop(e, "$screen_name"),
          screen_width |-> Prop(e, "$screen_width"),
          viewport_height |-> Prop(e, "$viewport_height"),
          viewport_width |-> Prop(e, "$viewport_width")],
     SdkName |-> Prop(e, "$lib"),
     Timestamp |-> e.timestamp]

RECURSIVE fillEventsFrom(_, _, _)
fillEventsFrom(events, i, pinpointEvents) ==
    IF i > Len(events) THEN pinpointEvents
    ELSE fillEventsFrom(events, i + 1,
             [k \in {KeyOf(events[i].distinct_id)} |-> filledEvent(events[i])])

fillEvents(events) == fillEventsFrom(events, 1, EmptyObject)

\* The reduce in sendToPinpoint (index.ts lines 107-114). Reading
\* batchEvents[batchKey].Events when batchEvents has no batchKey throws a
\* TypeError, which ends the reduce and the call.
RECURSIVE BufferedBatchFrom(_, _, _, _)
BufferedBatchFrom(events, i, batchEvents, rnd) ==
    IF i > Len(events)
    THEN [threw |-> FALSE, BatchItem |-> batchEvents, reached |-> Len(events)]
    ELSE LET e == events[i]
             batchKey == BatchKey(e, rnd[i])
         IN  IF batchKey \notin DOMAIN batchEvents
             THEN [threw |-> TRUE, BatchItem |-> batchEvents, reached |-> i]
             ELSE BufferedBatchFrom(events, i + 1,
                      Spread(batchEvents,
                             [k \in {batchKey} |->
                                 [Endpoint |-> fillEndpoint(e),
                                  Events |-> Spread(fillEvents(<<e>>),
                                                    batchEvents[batchKey].Events)]]),
                      rnd)

\* what sendToPinpoint of the buffered variant does with a list of events
BufferedSend(cfg, events, rnd) ==
    LET r == BufferedBatchFrom(events, 1, EmptyObject, rnd)
    IN  [threw |-> r.threw,
         keys |-> [i \in 1..r.reached |-> BatchKey(events[i], rnd[i])],
         command |-> [ApplicationId |-> cfg.applicationId,
                      BatchItem |-> r.BatchItem]]

(***************************************************************************)
(* Configuration                                                           *)
(***************************************************************************)
Chars(str) ==
    CASE str = "2" -> <<"2">>
      [] str = "" -> <<>>
      [] str = "abc" -> <<"a", "b", "c">>
      [] str = "0" -> <<"0">>
      [] str = "-5" -> <<"-", "5">>
      [] str = "1" -> <<"1">>
      [] str = "60" -> <<"6", "0">>
      [] str = "61" -> <<"6", "1">>
      [] str = "100" -> <<"1", "0", "0">>
      [] str = "101" -> <<"1", "0", "1">>
      [] str = " 12abc" -> <<" ", "1", "2", "a", "b", "c">>
      [] str = "heartbeat, debug" ->
             <<"h", "e", "a", "r", "t", "b", "e", "a", "t", ",", " ",
               "d", "e", "b", "u", "g">>

RequiredValues == {Undef, Str(""), Str("set")}

\* the optional settings: all left out, or all given
OptionalSettings ==
    { [uploadSeconds |-> CUndef, uploadMegabytes |-> CUndef,
       eventsToIgnore |-> CUndef],
      [uploadSeconds |-> CStr(Chars("2")), uploadMegabytes |-> CStr(Chars("2")),
       eventsToIgnore |-> CStr(Chars("heartbeat, debug"))] }

ConfigPool ==
    { [awsAccessKey |-> a, awsSecretAccessKey |-> s, awsRegion |-> r,
       applicationId |-> i, uploadSeconds |-> o.uploadSeconds,
       uploadMegabytes |-> o.uploadMegabytes,
       eventsToIgnore |-> o.eventsToIgnore] :
      a \in RequiredValues, s \in RequiredValues, r \in RequiredValues,
      i \in RequiredValues, o \in OptionalSettings }

(***************************************************************************)
(* setupPlugin                                                             *)
(***************************************************************************)
SetupFailed(message) ==
    [error |-> message, pinpoint |-> "none", buffer |-> FALSE, limit |-> 0,
     timeoutSeconds |-> 0, ignoreMade |-> FALSE, ignore |-> {}]

\* mutant of BufferOptions: the limit taken for kilobytes
BufferOptionsKilobytes(cfg) ==
    [limit |-> uploadMegabytes(cfg) * 1024,
     timeoutSeconds |-> uploadSeconds(cfg)]

\* mutant of BufferOptions: the interval taken for minutes
BufferOptionsMinutes(cfg) ==
    [limit |-> uploadMegabytes(cfg) * 1024 * 1024,
     timeoutSeconds |-> uploadSeconds(cfg) * 60]

\* createBuffer({limit, timeoutSeconds, onFlush}) as setupPlugin calls it
BufferOptions(cfg) ==
    [limit |-> uploadMegabytes(cfg) * 1024 * 1024,
     timeoutSeconds |-> uploadSeconds(cfg)]

\* mutant of SetupOutcome: the application id is checked after the client,
\* the buffer and the ignore set were made
SetupOutcomeLateCheck(cfg) ==
    IF ~Truthy(cfg.awsAccessKey) THEN SetupFailed("AWS access key missing!")
    ELSE IF ~Truthy(cfg.awsSecretAccessKey)
    THEN SetupFailed("AWS secret access key missing!")
    ELSE IF ~Truthy(cfg.awsRegion) THEN SetupFailed("AWS region missing!")
    ELSE [error |-> IF ~Truthy(cfg.applicationId) THEN "ApplicationId missing!"
                    ELSE "",
          pinpoint |-> "client", buffer |-> TRUE,
          limit |-> uploadMegabytes(cfg) * 1024 * 1024,
          timeoutSeconds |-> uploadSeconds(cfg),
          ignoreMade |-> TRUE, ignore |-> IgnoreSetOf(cfg)]

\* what setupPlugin leaves in global, or the Error it throws
SetupOutcome(cfg) ==
    IF ~Truthy(cfg.awsAccessKey) THEN SetupFailed("AWS access key missing!")
    ELSE IF ~Truthy(cfg.awsSecretAccessKey)
    THEN SetupFailed("AWS secret access key missing!")
    ELSE IF ~Truthy(cfg.awsRegion) THEN SetupFailed("AWS region missing!")
    ELSE IF ~Truthy(cfg.applicationId) THEN SetupFailed("ApplicationId missing!")
    ELSE [error |-> "", pinpoint |-> "client", buffer |-> TRUE,
          limit |-> BufferOptions(cfg).limit,
          timeoutSeconds |-> BufferOptions(cfg).timeoutSeconds,
          ignoreMade |-> TRUE, ignore |-> IgnoreSetOf(cfg)]

(***************************************************************************)
(* The dispatcher as a step of the state machine                           *)
(***************************************************************************)
NeedsUuid(e) == e.uuid.t \in {"undefined", "null"}

RECURSIVE CountNeedsUuid(_, _)
CountNeedsUuid(events, upto) ==
    IF upto = 0 THEN 0
    ELSE CountNeedsUuid(events, upto - 1) + (IF NeedsUuid(events[upto]) THEN 1 ELSE 0)

\* the ids randomUUID() hands out during one call, by position in the list
FreshFor(events, base) ==
    [i \in 1..Len(events) |-> FreshUuid(base + CountNeedsUuid(events, i))]

\* sendToPinpoint(events, meta), rnd[i] being the i-th Math.random() key
sendToPinpoint(events, rnd) ==
    /\ dispatched' = Append(dispatched, events)
    /\ IF variant = "buffered"
       THEN LET r == BufferedSend(config, events, rnd)
            IN  /\ uncaught' = IF r.threw THEN Append(uncaught, "TypeError")
                               ELSE uncaught
                /\ submitted' = IF r.threw THEN submitted
                                ELSE Append(submitted, r.command)
                /\ inflight' = IF r.threw THEN inflight
                               ELSE inflight \cup {Len(submitted) + 1}
                /\ batchKeys' = Append(batchKeys, r.keys)
                /\ UNCHANGED uuidCounter
       ELSE /\ submitted' = Append(submitted,
                   ImmediateCommand(config, events, rnd,
                                    FreshFor(events, uuidCounter), now))
            /\ inflight' = inflight \cup {Len(submitted) + 1}
            /\ batchKeys' = Append(batchKeys,
                   [i \in 1..Len(events) |-> BatchKey(events[i], rnd[i])])
            /\ uuidCounter' = uuidCounter + CountNeedsUuid(events, Len(events))
            /\ UNCHANGED uncaught

NoDispatch == UNCHANGED <<dispatched, batchKeys, submitted, uncaught, inflight, uuidCounter>>

\* onFlush as setupPlugin passes it to createBuffer: the immediate variant
\* skips an empty list
onFlush(events, rnd) ==
    IF variant = "immediate" /\ Len(events) = 0 THEN NoDispatch
    ELSE sendToPinpoint(events, rnd)

(***************************************************************************)
(* The buffer (createBuffer of @posthog/plugin-contrib, spec section 4.2)  *)
(***************************************************************************)
\* mutant of BufferFlush: onFlush is called for an empty sequence too
BufferFlushAlways(pending, rnd) ==
    /\ bufEvents' = <<>>
    /\ bufSince' = <<>>
    /\ bufSize' = 0
    /\ bufDeadline' = now + bufTimeout
    /\ onFlush(pending, rnd)

\* flush(): swap the pending sequence out and hand it to onFlush; nothing
\* happens when it is empty
BufferFlush(pending, rnd) ==
    IF pending = <<>>
    THEN /\ bufEvents' = pending
         /\ UNCHANGED <<bufSize, bufDeadline, bufSince>>
         /\ NoDispatch
    ELSE /\ bufEvents' = <<>>
         /\ bufSince' = <<>>
         /\ bufSize' = 0
         /\ bufDeadline' = now + bufTimeout
         /\ onFlush(pending, rnd)

\* add(event): append, account the size, flush at once when the limit is
\* reached
BufferAdd(e, rnd) ==
    IF bufSize + e.bytes >= bufLimit
    THEN /\ bufEvents' = <<>>
         /\ bufSince' = <<>>
         /\ bufSize' = 0
         /\ bufDeadline' = now + bufTimeout
         /\ onFlush(Append(bufEvents, e), rnd)
    ELSE /\ bufEvents' = Append(bufEvents, e)
         /\ bufSince' = Append(bufSince, now)
         /\ bufSize' = bufSize + e.bytes
         /\ UNCHANGED bufDeadline
         /\ NoDispatch

(***************************************************************************)
(* Handlers                                                                *)
(***************************************************************************)
setupPlugin ==
    /\ pc = "init"
    /\ LET out == SetupOutcome(config)
       IN  /\ setupError' = out.error
           /\ pc' = IF out.error = "" THEN "running" ELSE "failed"
           /\ pinpoint' = out.pinpoint
           /\ bufCreated' = out.buffer
           /\ bufLimit' = out.limit
           /\ bufTimeout' = out.timeoutSeconds
           /\ bufDeadline' = now + out.timeoutSeconds
           /\ ignoreMade' = out.ignoreMade
           /\ eventsToIgnore' = out.ignore
    /\ lastOp' = [op |-> "setupPlugin", n |-> 0]
    /\ UNCHANGED <<variant, config, bufEvents, bufSize, now, delivered,
                   accepted, bufSince, dispatched, batchKeys, submitted,
                   uncaught, inflight, log, uuidCounter>>

\* mutant of Ignored: the wrong field of the event is looked up
IgnoredByDistinctId(e) == e.distinct_id.v \in eventsToIgnore

\* global.eventsToIgnore.has(event.event)
Ignored(e) == e.event.v \in eventsToIgnore

\* mutant of Accept: the event is neither buffered nor sent
AcceptWithoutAdd(e, rnd) ==
    /\ UNCHANGED <<bufEvents, bufSize, bufDeadline, bufSince>>
    /\ NoDispatch

\* mutant of Accept: the event is also given to global.buffer.add in the
\* immediate variant
AcceptIntoBuffer(e, rnd) ==
    IF variant = "buffered"
    THEN BufferAdd(e, rnd)
    ELSE /\ sendToPinpoint(<<e>>, rnd)
         /\ bufEvents' = Append(bufEvents, e)
         /\ bufSince' = Append(bufSince, now)
         /\ bufSize' = bufSize + e.bytes
         /\ UNCHANGED bufDeadline

\* what onEvent and onSnapshot do with an event that is not ignored
Accept(e, rnd) ==
    IF variant = "buffered"
    THEN BufferAdd(e, rnd)
    ELSE /\ sendToPinpoint(<<e>>, rnd)
         /\ UNCHANGED <<bufEvents, bufSize, bufDeadline, bufSince>>

\* mutant of Deliver: the type of an accepted event is added to the ignore
\* set
DeliverOncePerType(name, e) ==
    /\ pc = "running"
    /\ delivered < MaxEvents
    /\ delivered' = delivered + 1
    /\ LET ev == [e EXCEPT !.no = delivered + 1]
       IN  IF Ignored(ev)
           THEN /\ UNCHANGED <<accepted, bufSince, bufEvents, bufSize,
                               bufDeadline, eventsToIgnore>>
                /\ NoDispatch
           ELSE /\ accepted' = Append(accepted, ev)
                /\ eventsToIgnore' = eventsToIgnore \cup {ev.event.v}
                /\ \E rnd \in [1..(Len(bufEvents) + 1) -> RandomKeys] :
                       Accept(ev, rnd)
    /\ lastOp' = [op |-> "deliver", n |-> delivered + 1]
    /\ UNCHANGED <<variant, config, pc, setupError, pinpoint, bufCreated,
                   ignoreMade, bufLimit, bufTimeout, now, log>>

\* onEvent and onSnapshot have the same body
Deliver(name, e) ==
    /\ pc = "running"
    /\ delivered < MaxEvents
    /\ delivered' = delivered + 1
    /\ LET ev == [e EXCEPT !.no = delivered + 1]
       IN  IF Ignored(ev)
           THEN /\ UNCHANGED <<accepted, bufSince, bufEvents, bufSize,
                               bufDeadline>>
                /\ NoDispatch
           ELSE /\ accepted' = Append(accepted, ev)
                /\ \E rnd \in [1..(Len(bufEvents) + 1) -> RandomKeys] :
                       Accept(ev, rnd)
    /\ lastOp' = [op |-> "deliver", n |-> delivered + 1]
    /\ UNCHANGED <<variant, config, pc, setupError, pinpoint, bufCreated,
                   ignoreMade, eventsToIgnore, bufLimit, bufTimeout, now, log>>

onEvent == \E e \in HostEvents : Deliver("onEvent", e)

onSnapshot == \E e \in HostEvents : Deliver("onSnapshot", e)

\* mutant of teardownPlugin: the final flush is left out
teardownWithoutFlush ==
    /\ pc = "running"
    /\ pc' = "done"
    /\ lastOp' = [op |-> "teardownPlugin", n |-> Len(bufEvents)]
    /\ NoDispatch
    /\ UNCHANGED <<variant, config, setupError, pinpoint, bufCreated,
                   ignoreMade, eventsToIgnore, bufEvents, bufSize, bufLimit,
                   bufTimeout, bufDeadline, bufSince, now, delivered,
                   accepted, log>>

teardownPlugin ==
    /\ pc = "running"
    /\ pc' = "done"
    /\ \E rnd \in [1..Len(bufEvents) -> RandomKeys] : BufferFlush(bufEvents, rnd)
    /\ lastOp' = [op |-> "teardownPlugin", n |-> Len(bufEvents)]
    /\ UNCHANGED <<variant, config, setupError, pinpoint, bufCreated,
                   ignoreMade, eventsToIgnore, bufLimit, bufTimeout, now,
                   delivered, accepted, log>>

\* the buffer's recurring timer fires at its deadline
timerFlush ==
    /\ pc = "running"
    /\ now = bufDeadline
    /\ \E rnd \in [1..Len(bufEvents) -> RandomKeys] :
           IF bufEvents = <<>>
           THEN /\ bufDeadline' = now + bufTimeout
                /\ UNCHANGED <<bufEvents, bufSize, bufSince>>
                /\ NoDispatch
           ELSE BufferFlush(bufEvents, rnd)
    /\ lastOp' = [op |-> "timerFlush", n |-> Len(bufEvents)]
    /\ UNCHANGED <<variant, config, pc, setupError, pinpoint, bufCreated,
                   ignoreMade, eventsToIgnore, bufLimit, bufTimeout, now,
                   delivered, accepted, log>>

\* a second passes; a timer that is due fires before the clock moves on
tick ==
    /\ pc = "running"
    /\ now < MaxTime
    /\ now < bufDeadline
    /\ now' = now + 1
    /\ UNCHANGED <<variant, config, pc, setupError, pinpoint, bufCreated,
                   ignoreMade, eventsToIgnore, bufEvents, bufSize, bufLimit,
                   bufTimeout, bufDeadline, delivered, accepted, bufSince,
                   dispatched, batchKeys, submitted, uncaught, inflight, log,
                   uuidCounter, lastOp>>

\* the lines the putEvents callback of the immediate variant writes
CallbackLines(i, failed) ==
    (IF failed THEN <<[level |-> "error", what |-> "error", request |-> i]>>
     ELSE <<>>)
    \o <<[level |-> "info", what |-> "uploaded", request |-> i],
         [level |-> "info", what |-> "response", request |-> i]>>

\* mutant of complete: the events of a failed request are put back on the
\* buffer
completeAndRequeue ==
    /\ \E i \in inflight, failed \in BOOLEAN :
        /\ inflight' = inflight \ {i}
        /\ log' = IF variant = "immediate"
                  THEN Spread(log, [k \in {i} |-> CallbackLines(i, failed)])
                  ELSE log
        /\ bufEvents' = IF failed THEN bufEvents \o dispatched[i] ELSE bufEvents
        /\ bufSince' = IF failed
                       THEN bufSince \o [n \in 1..Len(dispatched[i]) |-> now]
                       ELSE bufSince
        /\ bufSize' = IF failed THEN bufSize + Len(dispatched[i]) ELSE bufSize
    /\ UNCHANGED <<lastOp, variant, config, pc, setupError, pinpoint, bufCreated,
                   ignoreMade, eventsToIgnore, bufLimit,
                   bufTimeout, bufDeadline, now, delivered, accepted,
                   dispatched, batchKeys, submitted, uncaught,
                   uuidCounter>>

\* the outbound call for submitted[i] completes, with or without an error
complete ==
    /\ \E i \in inflight, failed \in BOOLEAN :
        /\ inflight' = inflight \ {i}
        /\ log' = IF variant = "immediate"
                  THEN Spread(log, [k \in {i} |-> CallbackLines(i, failed)])
                  ELSE log
    /\ UNCHANGED <<lastOp, variant, config, pc, setupError, pinpoint, bufCreated,
                   ignoreMade, eventsToIgnore, bufEvents, bufSize, bufLimit,
                   bufTimeout, bufDeadline, now, delivered, accepted,
                   bufSince, dispatched, batchKeys, submitted, uncaught,
                   uuidCounter>>

\* the state before setupPlugin has run
Unloaded ==
    /\ variant \in {"buffered", "immediate"}
    /\ pc = "init"
    /\ setupError = ""
    /\ pinpoint = "none"
    /\ bufCreated = FALSE
    /\ ignoreMade = FALSE
    /\ eventsToIgnore = {}
    /\ bufEvents = <<>>
    /\ bufSize = 0
    /\ bufLimit = 0
    /\ bufTimeout = 0
    /\ bufDeadline = 0
    /\ now = 0
    /\ delivered = 0
    /\ accepted = <<>>
    /\ bufSince = <<>>
    /\ dispatched = <<>>
    /\ batchKeys = <<>>
    /\ submitted = <<>>
    /\ uncaught = <<>>
    /\ inflight = {}
    /\ log = [i \in {} |-> <<>>]
    /\ uuidCounter = 0
    /\ lastOp = [op |-> "none", n |-> 0]

Init ==
    /\ config \in ConfigPool
    /\ Unloaded

Next ==
    \/ setupPlugin
    \/ onEvent
    \/ onSnapshot
    \/ teardownPlugin
    \/ timerFlush
    \/ tick
    \/ complete

Spec == Init /\ [][Next]_vars

(***************************************************************************)
(* The exported sendToPinpoint of the immediate variant called directly    *)
(* with a list of events, once per run                                     *)
(***************************************************************************)
RECURSIVE ListsUpTo(_)
ListsUpTo(n) ==
    IF n = 0 THEN {<<>>}
    ELSE ListsUpTo(n - 1)
         \cup {Append(l, e) : l \in {x \in ListsUpTo(n - 1) : Len(x) = n - 1},
                              e \in EventPool}

callSendToPinpoint ==
    /\ pc = "running"
    /\ variant = "immediate"
    /\ dispatched = <<>>
    /\ \E events \in ListsUpTo(MaxBatch) :
           \E rnd \in [1..Len(events) -> RandomKeys] :
               sendToPinpoint(events, rnd)
    /\ lastOp' = [op |-> "sendToPinpoint", n |-> 0]
    /\ UNCHANGED <<variant, config, pc, setupError, pinpoint, bufCreated,
                   ignoreMade, eventsToIgnore, bufEvents, bufSize, bufLimit,
                   bufTimeout, bufDeadline, now, delivered, accepted,
                   bufSince, log>>

NextDispatch ==
    \/ setupPlugin
    \/ callSendToPinpoint
    \/ complete

SpecDispatch == Init /\ [][NextDispatch]_vars

(***************************************************************************)
(* setupPlugin alone, over the values the two optional numeric settings    *)
(* can be given                                                            *)
(***************************************************************************)
\* a setting as the host passes it, with what it was meant to say: nothing,
\* no number, an integer, or an integer followed by other text
SettingCases ==
    { [text |-> CUndef, kind |-> "missing", value |-> 0],
      [text |-> CStr(Chars("")), kind |-> "missing", value |-> 0],
      [text |-> CStr(Chars("abc")), kind |-> "nonnumeric", value |-> 0],
      [text |-> CStr(Chars("0")), kind |-> "integer", value |-> 0],
      [text |-> CStr(Chars("-5")), kind |-> "integer", value |-> 0 - 5],
      [text |-> CStr(Chars("1")), kind |-> "integer", value |-> 1],
      [text |-> CStr(Chars("2")), kind |-> "integer", value |-> 2],
      [text |-> CStr(Chars("60")), kind |-> "integer", value |-> 60],
      [text |-> CStr(Chars("61")), kind |-> "integer", value |-> 61],
      [text |-> CStr(Chars("100")), kind |-> "integer", value |-> 100],
      [text |-> CStr(Chars("101")), kind |-> "integer", value |-> 101],
      [text |-> CStr(Chars(" 12abc")), kind |-> "prefixed", value |-> 12] }

SettingsPool ==
    { [awsAccessKey |-> Str("set"), awsSecretAccessKey |-> Str("set"),
       awsRegion |-> Str("set"), applicationId |-> Str("set"),
       uploadSeconds |-> sec.text, uploadMegabytes |-> mb.text,
       eventsToIgnore |-> CUndef] :
      sec \in SettingCases, mb \in SettingCases }

InitSettings ==
    /\ config \in SettingsPool
    /\ Unloaded

NextSettings == setupPlugin

SpecSettings == InitSettings /\ [][NextSettings]_vars

(***************************************************************************)
(* Properties                                                              *)
(***************************************************************************)
\* the places (batch, position) where event number n was handed to the
\* dispatcher, and the positions where it is pending
FlushedAt(n) ==
    {bi \in UNION {{<<b, i>> : i \in 1..Len(dispatched[b])} :
                      b \in 1..Len(dispatched)} :
        dispatched[bi[1]][bi[2]].no = n}

PendingAt(n) == {i \in 1..Len(bufEvents) : bufEvents[i].no = n}

\* C1: in the buffered variant every accepted event is at any time either
\* pending in the buffer or in exactly one batch handed to the dispatcher,
\* never both and never neither, and once teardownPlugin has run it is in
\* exactly one batch.
C1_AcceptedFlushedExactlyOnce ==
    variant = "buffered" =>
        \A k \in 1..Len(accepted) :
            LET n == accepted[k].no
            IN  /\ Cardinality(FlushedAt(n)) + Cardinality(PendingAt(n)) = 1
                /\ pc = "done" => Cardinality(FlushedAt(n)) = 1

C1_Witness ==
    /\ variant = "buffered"
    /\ pc = "done"
    /\ Len(accepted) >= 2
    /\ Len(dispatched) >= 2

\* C2: with L the configured size limit and T the configured interval, the
\* pending size stays below L (reaching L flushes at once) and no pending
\* event has waited longer than T seconds.
C2_FlushWithinLimits ==
    (variant = "buffered" /\ pc \in {"running", "done"}) =>
        LET L == ClampSetting(config.uploadMegabytes, 100) * 1024 * 1024
            T == ClampSetting(config.uploadSeconds, 60)
        IN  /\ bufSize < L
            /\ Len(bufSince) = Len(bufEvents)
            /\ \A i \in 1..Len(bufSince) : now - bufSince[i] <= T

C2_Witness ==
    /\ variant = "buffered"
    /\ lastOp.op = "timerFlush"
    /\ lastOp.n >= 1
    /\ Len(dispatched) >= 2
    /\ bufEvents = <<>>

\* C3: a teardownPlugin step taken with K >= 1 events pending makes exactly
\* one dispatch call, carrying all K events in order, and leaves the buffer
\* empty.
C3_TeardownFlushesAll ==
    [][(pc = "running" /\ pc' = "done" /\ bufEvents # <<>>) =>
          /\ dispatched' = Append(dispatched, bufEvents)
          /\ bufEvents' = <<>>
          /\ bufSize' = 0]_vars

C3_Witness ==
    /\ lastOp.op = "teardownPlugin"
    /\ lastOp.n >= 2
    /\ pc = "done"
    /\ bufEvents = <<>>
    /\ Len(dispatched[Len(dispatched)]) = lastOp.n

\* the keys of the event entries of a command
EntryKeys(command) ==
    UNION {DOMAIN command.BatchItem[k].Events : k \in DOMAIN command.BatchItem}

\* C4: in the buffered variant every flushed batch has led to one submit
\* call whose request carries the application id and an entry for every
\* event of the batch.
C4_EveryFlushSubmitted ==
    variant = "buffered" =>
        /\ Len(submitted) = Len(dispatched)
        /\ \A b \in 1..Len(submitted) :
              /\ submitted[b].ApplicationId = config.applicationId
              /\ \A i \in 1..Len(dispatched[b]) :
                    KeyOf(dispatched[b][i].distinct_id) \in EntryKeys(submitted[b])

\* the event types of the entries of a command
EntryTypes(command) ==
    UNION {{command.BatchItem[k].Events[ek].EventType.v :
               ek \in DOMAIN command.BatchItem[k].Events} :
           k \in DOMAIN command.BatchItem}

TypesOf(events) == {events[i].event.v : i \in 1..Len(events)}

\* C5: an event whose type is one of the trimmed entries of
\* config.eventsToIgnore is never pending in the buffer, never in a list
\* handed to the dispatcher and never in an outbound request.
C5_IgnoredNeverForwarded ==
    LET names == IgnoreSetOf(config)
    IN  /\ TypesOf(bufEvents) \cap names = {}
        /\ \A b \in 1..Len(dispatched) : TypesOf(dispatched[b]) \cap names = {}
        /\ \A c \in 1..Len(submitted) : EntryTypes(submitted[c]) \cap names = {}

C5_Witness ==
    /\ variant = "immediate"
    /\ IgnoreSetOf(config) # {}
    /\ delivered = 2
    /\ Len(accepted) = 1
    /\ Len(submitted) = 1

\* C6: no failure escapes sendToPinpoint.
C6_NoUncaughtFailure == uncaught = <<>>

\* the events of a list all carry the same non-empty device id
SameDevice(events) ==
    /\ Len(events) >= 1
    /\ Truthy(Prop(events[1], "$device_id"))
    /\ \A i \in 1..Len(events) :
          Prop(events[i], "$device_id") = Prop(events[1], "$device_id")

\* no two events of a list carry the same uuid
DistinctUuids(events) ==
    \A i, j \in 1..Len(events) :
        (i < j /\ ~NeedsUuid(events[i]) /\ ~NeedsUuid(events[j]))
            => events[i].uuid # events[j].uuid

\* the event keys getEvents uses for a list sent when no id had been made
EventKeysOf(events) ==
    {EventKey(events[i], FreshFor(events, 0)[i]) : i \in 1..Len(events)}

\* C7 as stated: N events sharing a device id give one BatchItem, keyed by
\* the device id, with exactly N event entries.
C7_OneItemWithNEntries ==
    \A c \in 1..Len(submitted) :
        SameDevice(dispatched[c]) =>
            LET d == KeyOf(Prop(dispatched[c][1], "$device_id"))
            IN  /\ DOMAIN submitted[c].BatchItem = {d}
                /\ Cardinality(DOMAIN submitted[c].BatchItem[d].Events)
                       = Len(dispatched[c])

\* C7 amended: N events sharing a non-empty device id give one BatchItem,
\* keyed by the device id, with one entry per distinct event key; that is
\* exactly N entries when no two of the events carry the same uuid.
C7_OneItemEntryPerEventKey ==
    \A c \in 1..Len(submitted) :
        SameDevice(dispatched[c]) =>
            LET d == KeyOf(Prop(dispatched[c][1], "$device_id"))
            IN  /\ DOMAIN submitted[c].BatchItem = {d}
                /\ DOMAIN submitted[c].BatchItem[d].Events
                       = EventKeysOf(dispatched[c])
                /\ DistinctUuids(dispatched[c]) =>
                       Cardinality(DOMAIN submitted[c].BatchItem[d].Events)
                           = Len(dispatched[c])

C7_Witness ==
    /\ Len(submitted) = 1
    /\ Len(dispatched[1]) >= 2
    /\ SameDevice(dispatched[1])
    /\ DistinctUuids(dispatched[1])
    /\ Prop(dispatched[1][1], "$device_id") = Str("d1")
    /\ Cardinality(DOMAIN submitted[1].BatchItem["d1"].Events) = Len(dispatched[1])

\* the positions of a dispatched list whose batch key is k
WithKey(c, k) == {i \in 1..Len(dispatched[c]) : batchKeys[c][i] = k}

\* C8: the Endpoint of every BatchItem is the endpoint of the last event of
\* the list with that batch key, and every event with that batch key has
\* its entry in the item; the entry of an event whose event key no other
\* event of the key shares is that event's normalized record.
C8_LastEndpointWinsEntriesSurvive ==
    \A c \in 1..Len(submitted) :
        LET events == dispatched[c]
            fresh == FreshFor(events, 0)
        IN  \A k \in DOMAIN submitted[c].BatchItem :
                LET item == submitted[c].BatchItem[k]
                    idx == WithKey(c, k)
                    last == CHOOSE i \in idx : \A j \in idx : j <= i
                IN  /\ idx # {}
                    /\ item.Endpoint = getEndpoint(events[last])
                    /\ \A i \in idx :
                          /\ EventKey(events[i], fresh[i]) \in DOMAIN item.Events
                          /\ (\A j \in idx \ {i} :
                                 EventKey(events[j], fresh[j])
                                     # EventKey(events[i], fresh[i]))
                              => item.Events[EventKey(events[i], fresh[i])]
                                     = pinpointEvent(events[i], now)

C8_Witness ==
    /\ Len(submitted) = 1
    /\ Cardinality(WithKey(1, "d1")) >= 2
    /\ getEndpoint(dispatched[1][1]) # getEndpoint(dispatched[1][Len(dispatched[1])])
    /\ Cardinality(DOMAIN submitted[1].BatchItem["d1"].Events) >= 2

\* C9: every value of the Attributes mapping of every normalized event is
\* a string.
C9_AttributesAreStrings ==
    \A c \in 1..Len(submitted) :
        \A k \in DOMAIN submitted[c].BatchItem :
            \A ek \in DOMAIN submitted[c].BatchItem[k].Events :
                \A a \in DOMAIN submitted[c].BatchItem[k].Events[ek].Attributes :
                    submitted[c].BatchItem[k].Events[ek].Attributes[a].t = "string"

\* one of the four required settings is missing or empty
RequiredMissing ==
    \E f \in {"awsAccessKey", "awsSecretAccessKey", "awsRegion", "applicationId"} :
        config[f] \in {Undef, Str("")}

\* C10: once setupPlugin has run with a required setting missing or empty,
\* it has thrown an Error and global holds no client, no buffer and no
\* ignore set.
C10_NoPartialStartup ==
    (pc # "init" /\ RequiredMissing) =>
        /\ pc = "failed"
        /\ setupError # ""
        /\ pinpoint = "none"
        /\ ~bufCreated
        /\ ~ignoreMade

C10_Witness ==
    /\ pc = "failed"
    /\ config.awsAccessKey = Str("set")
    /\ config.awsSecretAccessKey = Str("set")
    /\ config.awsRegion = Str("set")
    /\ config.applicationId = Str("")
    /\ setupError = "ApplicationId missing!"

\* the setting cases a configured text stands for
CasesOf(text) == {c \in SettingCases : c.text = text}

\* the claimed effective value: 1 for a missing, non-numeric or out-of-range
\* setting, the configured integer inside the range
ClaimedSetting(c, hi) ==
    IF c.kind \in {"missing", "nonnumeric"} \/ c.value < 1 \/ c.value > hi
    THEN 1 ELSE c.value

\* the effective value with the range applied as a clamp
ClampedSetting(c, hi) ==
    IF c.kind \in {"missing", "nonnumeric"} \/ c.value < 1 THEN 1
    ELSE IF c.value > hi THEN hi ELSE c.value

\* C11 as stated: after setupPlugin the size multiple and the time limit are
\* 1 for a missing, non-numeric or out-of-range setting (below 1, above 100
\* or 60) and the configured integer otherwise
C11_OutOfRangeIsOne ==
    pc = "running" =>
        /\ \A c \in CasesOf(config.uploadMegabytes) :
               c.kind # "prefixed" =>
                   bufLimit = ClaimedSetting(c, 100) * 1024 * 1024
        /\ \A c \in CasesOf(config.uploadSeconds) :
               c.kind # "prefixed" => bufTimeout = ClaimedSetting(c, 60)

\* C11 amended: after setupPlugin the size multiple and the time limit are 1
\* for a setting that is missing, has no leading integer or whose integer is
\* below 1, the maximum (100 or 60) for an integer above the maximum, and
\* the leading integer itself inside the range
C11_SettingsClamped ==
    pc = "running" =>
        /\ \A c \in CasesOf(config.uploadMegabytes) :
               bufLimit = ClampedSetting(c, 100) * 1024 * 1024
        /\ \A c \in CasesOf(config.uploadSeconds) :
               bufTimeout = ClampedSetting(c, 60)

C11_Witness ==
    /\ pc = "running"
    /\ config.uploadMegabytes = CStr(Chars("101"))
    /\ config.uploadSeconds = CStr(Chars("abc"))
    /\ bufLimit = 100 * 1024 * 1024
    /\ bufTimeout = 1

\* C12: in the immediate variant every accepted event has caused exactly one
\* dispatch call carrying just that event, every outbound request holds one
\* BatchItem with one event entry, and nothing is ever appended to the
\* buffer.
C12_ImmediateOnePerEvent ==
    variant = "immediate" =>
        /\ bufEvents = <<>>
        /\ bufSize = 0
        /\ Len(dispatched) = Len(accepted)
        /\ Len(submitted) = Len(accepted)
        /\ \A i \in 1..Len(accepted) :
              /\ dispatched[i] = <<accepted[i]>>
              /\ DOMAIN submitted[i].BatchItem = {batchKeys[i][1]}
              /\ Cardinality(EntryKeys(submitted[i])) = 1

C12_Witness ==
    /\ variant = "immediate"
    /\ Len(accepted) = 2
    /\ Len(submitted) = 2
    /\ accepted[1].event # accepted[2].event
    /\ delivered = 2

\* C13: a timer flush or a teardown that finds nothing pending makes no
\* dispatch call and submits nothing, and no dispatch call ever carries an
\* empty list nor any outbound request an empty BatchItem mapping.
C13_EmptyFlushIsNoOp ==
    /\ (lastOp.op \in {"timerFlush", "teardownPlugin"} /\ lastOp.n = 0
           /\ delivered = 0) =>
          (dispatched = <<>> /\ submitted = <<>> /\ uncaught = <<>>)
    /\ \A b \in 1..Len(dispatched) : dispatched[b] # <<>>
    /\ \A c \in 1..Len(submitted) : DOMAIN submitted[c].BatchItem # {}

C13_Witness ==
    /\ variant = "buffered"
    /\ pc = "done"
    /\ lastOp = [op |-> "teardownPlugin", n |-> 0]
    /\ now = 2
    /\ bufTimeout = 1
    /\ delivered = 0
    /\ dispatched = <<>>
    /\ submitted = <<>>

\* C14: within one dispatched list an event without a device id never
\* shares its batch key with any other event of the list.
C14_RandomKeyNeverShared ==
    \A c \in 1..Len(dispatched) :
        \A i \in 1..Len(dispatched[c]), j \in 1..Len(dispatched[c]) :
            (i # j /\ ~Truthy(Prop(dispatched[c][i], "$device_id"))) =>
                batchKeys[c][i] # batchKeys[c][j]

\* the coercion of a property value: the string form of a number or a
\* boolean, a string as it is, the JSON text of anything else
Coercion(value) ==
    CASE value.t \in {"number", "boolean"} -> Str(value.v)
      [] value.t = "string" -> value
      [] OTHER -> JSONstringify(value)

\* C15: for every key k of an event's properties, Attributes[k] of the
\* normalized event is the coercion of event.properties[k].
C15_AttributesCoerceProperties ==
    variant = "immediate" =>
        \A c \in 1..Len(submitted) :
            \A k \in DOMAIN submitted[c].BatchItem :
                \A ek \in DOMAIN submitted[c].BatchItem[k].Events :
                    \A key \in PropKeys(dispatched[c][1]) :
                        submitted[c].BatchItem[k].Events[ek].Attributes[key]
                            = Coercion(Prop(dispatched[c][1], key))

\* the kinds of line the callback wrote for request i
Logged(i) == {log[i][n].what : n \in 1..Len(log[i])}

\* C16: a submission that completed with an error has its error logged and
\* neither the "Uploaded N events" summary nor the response; those two are
\* logged only for a submission that succeeded.
C16_SummaryOnlyOnSuccess ==
    variant = "immediate" =>
        \A i \in DOMAIN log :
            "error" \in Logged(i) => Logged(i) = {"error"}

\* C17: a step in which an outbound submission completes, with or without
\* an error, leaves the pending sequence and the size estimate as they
\* were, and onEvent and onSnapshot can take an event whatever is in flight.
C17_FireAndForget ==
    /\ [][(inflight' # inflight /\ inflight' \subseteq inflight) =>
             UNCHANGED <<bufEvents, bufSize>>]_vars
    /\ []((pc = "running" /\ delivered < MaxEvents) =>
             (ENABLED onEvent /\ ENABLED onSnapshot))

\* the second event was accepted while the first request was in flight, and
\* its own request completed before the first
C17_Witness ==
    /\ pc = "running"
    /\ Len(submitted) = 2
    /\ inflight = {1}
    /\ DOMAIN log = {2}
    /\ Len(accepted) = 2

RECURSIVE SizeOf(_)
SizeOf(events) ==
    IF events = <<>> THEN 0 ELSE Head(events).bytes + SizeOf(Tail(events))

\* C18: in the buffered variant, once set up, the running size estimate is
\* the sum of the sizes of the pending events and stays below the limit it
\* is compared with, which is uploadMegabytes * 1024 * 1024.
C18_SizeEstimateIsSum ==
    (variant = "buffered" /\ pc \in {"running", "done"}) =>
        /\ bufSize = SizeOf(bufEvents)
        /\ bufLimit = uploadMegabytes(config) * 1024 * 1024
        /\ bufSize < bufLimit

C18_Witness ==
    /\ variant = "buffered"
    /\ pc = "running"
    /\ Len(bufEvents) = 2
    /\ bufSize = 512 * 1024 + 1
    /\ bufLimit = 1024 * 1024

\* the position in a batch of the last event that carries device id d
LastOfDevice(batch, d) ==
    CHOOSE i \in 1..Len(batch) :
        /\ Prop(batch[i], "$device_id") = d
        /\ \A j \in (i + 1)..Len(batch) : Prop(batch[j], "$device_id") # d

\* C19: in the buffered variant a flushed batch lists its events in the
\* order they were accepted, and the outbound request made from it holds,
\* for every device id of the batch, the endpoint of the last event of that
\* device.
C19_LastAcceptedEndpoint ==
    variant = "buffered" =>
        \A b \in 1..Len(dispatched) :
            /\ \A i \in 1..Len(dispatched[b]), j \in 1..Len(dispatched[b]) :
                  i < j => dispatched[b][i].no < dispatched[b][j].no
            /\ b <= Len(submitted)
            /\ \A i \in 1..Len(dispatched[b]) :
                  LET d == Prop(dispatched[b][i], "$device_id")
                  IN  Truthy(d) =>
                          /\ d.v \in DOMAIN submitted[b].BatchItem
                          /\ submitted[b].BatchItem[d.v].Endpoint =
                                 fillEndpoint(dispatched[b][LastOfDevice(dispatched[b], d)])

\* C20: no step taken after setupPlugin changes the ignore set, so an event
\* type is ignored at one point of a run exactly if it is at every other.
C20_IgnoreSetFrozen ==
    [][pc # "init" => UNCHANGED <<ignoreMade, eventsToIgnore>>]_vars

C20_Witness ==
    /\ pc = "done"
    /\ eventsToIgnore = {"heartbeat", "debug"}
    /\ delivered = 2
    /\ Len(accepted) = 1
    /\ dispatched # <<>>

====
